---------------------------- MODULE Spec2Model ----------------------------
(***************************************************************************)
(* Model of route_optimiser_app.py: the route-ordering helpers             *)
(* (parse_house_number, label_route_chunk, sort_addresses_by_chunk,        *)
(* assign_route_order, get_email_by_name) and the Streamlit script, whose  *)
(* every user interaction re-runs the whole script top to bottom against   *)
(* st.session_state.                                                       *)
(*                                                                         *)
(* Two specifications:                                                     *)
(*   SpecRoute  the pure function assign_route_order applied to every      *)
(*              register and street order within the bounds;               *)
(*   Spec       the interactive session (roster, pairing, route plan,      *)
(*              chunk assignment, export gate).                            *)
(***************************************************************************)
EXTENDS Integers, Sequences, FiniteSets, TLC

VARIABLES
    uploaded_file,    \* line 115: the electoral register uploader holds a file
    df,               \* line 117: the register read from it, a sequence of rows
    ordered_streets,  \* line 124: the street order returned by sort_items
    result,           \* SpecRoute: what assign_route_order returned or raised
    session_state,    \* st.session_state: a function from the keys present to values
    use_pairs,        \* line 97: the radio "Pair up canvassers for shared routes?"
    pair_widgets,     \* lines 101-107: num_pairs and the multiselects, while rendered
    options,          \* line 148: the options the chunk selectboxes offered in the last run
    final_names,      \* line 156/173: column 'Canvasser Name' built by the last run
    final_emails,     \* line 157/174: column 'Canvasser Email' built by the last run
    export,           \* lines 189-197: "none" | "warning" | "download" | "halted"
    regenerated       \* the last run was a click on Generate Route Plan that replaced
                      \* a stored route plan made with another street order

vars == <<uploaded_file, df, ordered_streets, result, session_state, use_pairs,
          pair_widgets, options, final_names, final_emails, export, regenerated>>

---------------------------------------------------------------------------
(* Bounds and input alphabets *)

\* largest register (number of rows) explored by SpecRoute
MaxRecords == 3

\* np.nan as returned by parse_house_number, and the code of a missing category
NaN == -1

\* str(nan), as label_route_chunk formats a missing street
NaNStreet == "nan"

Streets == {"Elm St", "Oak Rd"}

\* Address strings, as sequences of characters
Addresses ==
    { <<"7">>, <<"4">>, <<"1", "2", "A">>, <<"F", "l", "a", "t">> }

---------------------------------------------------------------------------
(* Helper functions, lines 9-46 *)

Digits == {"0", "1", "2", "3", "4", "5", "6", "7", "8", "9"}

DigitVal(c) ==
    CASE c = "0" -> 0 [] c = "1" -> 1 [] c = "2" -> 2 [] c = "3" -> 3
      [] c = "4" -> 4 [] c = "5" -> 5 [] c = "6" -> 6 [] c = "7" -> 7
      [] c = "8" -> 8 [] c = "9" -> 9

RECURSIVE DigitRun(_, _, _)
\* int() of the maximal digit run of address starting at position i, acc so far
DigitRun(address, i, acc) ==
    IF i > Len(address) \/ address[i] \notin Digits
    THEN acc
    ELSE DigitRun(address, i + 1, acc * 10 + DigitVal(address[i]))

\* re.search(r'(\d+)', str(address)): the first maximal run of digits, or np.nan
parse_house_number(address) ==
    LET hits == {i \in 1..Len(address) : address[i] \in Digits}
    IN  IF hits = {}
        THEN NaN
        ELSE LET first == CHOOSE i \in hits : \A j \in hits : i <= j
             IN  DigitRun(address, first, 0)

\* f"{row['Street']} (Odd)" etc.: the label is the pair (street, parity word)
label_route_chunk(row) ==
    LET number == parse_house_number(row.Address)
    IN  IF number = NaN
        THEN <<row.Street, "Unknown">>
        ELSE IF number % 2 = 1 THEN <<row.Street, "Odd">>
                               ELSE <<row.Street, "Even">>

\* df.apply(label_route_chunk, axis=1) stored as column 'Route Chunk'
assign_route_chunks(d) ==
    [k \in 1..Len(d) |->
        [idx |-> d[k].idx, Elector |-> d[k].Elector, Street |-> d[k].Street,
         Address |-> d[k].Address, RouteChunk |-> label_route_chunk(d[k])]]

RECURSIVE SortedPerms(_, _)
\* Every order of the positions S that is non-decreasing in key: the default
\* kind='quicksort' of sort_values gives no order among equal keys.
SortedPerms(S, key) ==
    IF S = {}
    THEN {<<>>}
    ELSE LET mins == {i \in S : \A j \in S : key[i] <= key[j]}
         IN  UNION {{<<i>> \o t : t \in SortedPerms(S \ {i}, key)} : i \in mins}

RECURSIVE Ascending(_)
\* the elements of a set of integers in increasing order
Ascending(S) ==
    IF S = {}
    THEN <<>>
    ELSE LET m == CHOOSE i \in S : \A j \in S : i <= j
         IN  <<m>> \o Ascending(S \ {m})

\* DataFrame.sort_values on one column (pandas nargsort): the rows whose key is
\* not NaN, argsorted with quicksort, then the NaN rows in their original order.
SortValues(d, key) ==
    LET pos    == 1..Len(d)
        nonnan == {i \in pos : key[i] # NaN}
        nans   == Ascending(pos \ nonnan)
    IN  {[k \in pos |-> d[q[k]]] : q \in {p \o nans : p \in SortedPerms(nonnan, key)}}

\* Series.unique(): the distinct values in order of first appearance
Unique(s) ==
    LET firsts == Ascending({k \in 1..Len(s) : \A j \in 1..(k - 1) : s[j] # s[k]})
    IN  [i \in 1..Len(firsts) |-> s[firsts[i]]]

RouteChunks(d) == Unique([k \in 1..Len(d) |-> d[k].RouteChunk])

SelectRows(d, chunk) == SelectSeq(d, LAMBDA r : r.RouteChunk = chunk)

SortChunk_unsorted(chunk_df) == {chunk_df}

\* lines 28-29: column HouseNum, then chunk_df.sort_values('HouseNum')
SortChunk(chunk_df) ==
    SortValues(chunk_df, [k \in 1..Len(chunk_df) |->
                             parse_house_number(chunk_df[k].Address)])

RECURSIVE ConcatChunks(_, _, _)
\* the loop of sort_addresses_by_chunk from chunk number c on: every frame
\* pd.concat can build, given the outcomes of each chunk's sort
ConcatChunks(d, chunks, c) ==
    IF c > Len(chunks)
    THEN {<<>>}
    ELSE UNION {{s \o rest : rest \in ConcatChunks(d, chunks, c + 1)} :
                    s \in SortChunk(SelectRows(d, chunks[c]))}

\* lines 24-31; on a frame without rows the loop never runs and
\* drop(columns=['HouseNum']) raises KeyError: no frame is returned
sort_addresses_by_chunk(d) ==
    IF Len(d) = 0 THEN {} ELSE ConcatChunks(d, RouteChunks(d), 1)

\* pd.Categorical(df['Street'], categories=ordered_streets): a street that is
\* no category becomes NaN
Categorical(d, categories) ==
    [k \in 1..Len(d) |->
        [d[k] EXCEPT !.Street =
            IF \E c \in 1..Len(categories) : categories[c] = d[k].Street
            THEN d[k].Street ELSE NaNStreet]]

\* the category code sort_values orders by: the position in ordered_streets
StreetCode(street, categories) ==
    IF \E c \in 1..Len(categories) : categories[c] = street
    THEN CHOOSE c \in 1..Len(categories) : categories[c] = street
    ELSE NaN

reset_index_kept(d) == d

\* line 38: df.reset_index(drop=True)
reset_index(d) ==
    [k \in 1..Len(d) |-> [d[k] EXCEPT !.idx = k - 1]]

\* line 39: df['Route Order'] = df.index + 1
SetRouteOrder(d) ==
    [k \in 1..Len(d) |->
        [idx |-> d[k].idx, Elector |-> d[k].Elector, Street |-> d[k].Street,
         Address |-> d[k].Address, RouteChunk |-> d[k].RouteChunk,
         RouteOrder |-> d[k].idx + 1]]

\* lines 34-35: the Street column made categorical, then df.sort_values(['Street'])
SortByStreet(d, streets) ==
    LET cat == Categorical(d, streets)
    IN  SortValues(cat, [k \in 1..Len(cat) |-> StreetCode(cat[k].Street, streets)])

\* lines 33-40: every frame assign_route_order can return (none when it raises)
assign_route_order(d, streets) ==
    UNION {{SetRouteOrder(reset_index(c)) :
                c \in sort_addresses_by_chunk(assign_route_chunks(s))} :
                    s \in SortByStreet(d, streets)}

\* lines 42-46
get_email_by_name(name, canvassers) ==
    LET hits == {k \in 1..Len(canvassers) : canvassers[k].Name = name}
    IN  IF hits = {} THEN ""
        ELSE canvassers[CHOOSE k \in hits : \A j \in hits : k <= j].Email

---------------------------------------------------------------------------
(* SpecRoute: assign_route_order on every register within the bounds *)

\* the register pd.read_csv delivers for the cells f: row k has index k-1,
\* the elector number identifies the record, a missing Street cell reads as NaN
ReadCsv(f) ==
    [k \in DOMAIN f |-> [idx |-> k - 1, Elector |-> k,
                         Street |-> f[k][1], Address |-> f[k][2]]]

RECURSIVE Orders(_)
\* every sequence that lists each element of S exactly once
Orders(S) ==
    IF S = {}
    THEN {<<>>}
    ELSE UNION {{<<x>> \o t : t \in Orders(S \ {x})} : x \in S}

\* line 122: sorted(df['Street'].dropna().unique().tolist())
StreetsOf(d) == {d[k].Street : k \in 1..Len(d)} \ {NaNStreet}

\* line 124: sort_items returns the streets in any order the user dragged them to
StreetOrders(d) == Orders(StreetsOf(d))

NoResult == [status |-> "none", df |-> <<>>]

SessionIdle ==
    /\ session_state = <<>>
    /\ use_pairs = "No"
    /\ pair_widgets = <<>>
    /\ options = <<>>
    /\ final_names = <<>>
    /\ final_emails = <<>>
    /\ export = "none"
    /\ regenerated = FALSE

InitRoute ==
    /\ uploaded_file = FALSE
    /\ df = <<>>
    /\ ordered_streets = <<>>
    /\ result = NoResult
    /\ SessionIdle

\* lines 115-124: a register is uploaded and the streets are dragged into an order
LoadRegister ==
    /\ ~uploaded_file
    /\ uploaded_file' = TRUE
    /\ \E n \in 0..MaxRecords :
          \E f \in [1..n -> (Streets \cup {NaNStreet}) \X Addresses] :
             df' = ReadCsv(f)
    /\ ordered_streets' \in StreetOrders(df')
    /\ UNCHANGED <<result, session_state, use_pairs, pair_widgets, options,
                   final_names, final_emails, export, regenerated>>

\* line 127: df_processed = assign_route_order(df.copy(), ordered_streets)
CallAssignRouteOrder ==
    /\ uploaded_file
    /\ result.status = "none"
    /\ LET outcomes == assign_route_order(df, ordered_streets)
       IN  IF outcomes = {}
           THEN result' = [status |-> "raised", df |-> <<>>]
           ELSE \E o \in outcomes : result' = [status |-> "ok", df |-> o]
    /\ UNCHANGED <<uploaded_file, df, ordered_streets, session_state, use_pairs,
                   pair_widgets, options, final_names, final_emails, export, regenerated>>

NextRoute == LoadRegister \/ CallAssignRouteOrder

SpecRoute == InitRoute /\ [][NextRoute]_vars

---------------------------------------------------------------------------
(* Spec: the Streamlit session.  Every interaction re-runs the script, lines  *)
(* 64-197, top to bottom; an action is one such run.                          *)

\* the register uploaded in the session (it has the expected columns of line
\* 118): one record on Elm St (odd side) and two on Oak Rd (even side), so that
\* the two chunks start at different offsets
Register ==
    ReadCsv(<< <<"Oak Rd", <<"1", "2", "A">> >>,
               <<"Elm St", <<"7">> >>,
               <<"Oak Rd", <<"4">> >> >>)

\* line 122: sorted(...) of the streets of Register
SortedStreets == <<"Elm St", "Oak Rd">>

\* what the user can type into the two text areas (lines 81-82), after the
\* split and strip of lines 84-85, or upload as a Name/Email table
RosterInputs ==
    { [names |-> <<"Ann", "Bob">>, emails |-> <<"ann@x", "bob@x">>],
      [names |-> <<"Ann", "Bob", "Cy", "Dee">>,
       emails |-> <<"ann@x", "bob@x", "cy@x", "dee@x">>],
      [names |-> <<"Ann", "Ann">>, emails |-> <<"ann@x", "ann2@x">>],
      [names |-> <<"Ann">>, emails |-> <<"ann@x">>],
      [names |-> <<"Ann", "Bob">>, emails |-> <<"ann@x">>] }

\* the Name/Email tables the user can upload as a canvasser CSV
CsvInputs ==
    { [names |-> <<"Ann", "Bob">>, emails |-> <<"ann@x", "bob@x">>],
      [names |-> <<"Ann", "Ann">>, emails |-> <<"ann@x", "ann2@x">>] }

\* line 106: f"Pair {i+1}"
PairNames == <<"Pair 1", "Pair 2">>

PairName(i) == PairNames[i]

\* line 160: assignment.startswith("Pair"), on the values a selectbox returns
\* when pairing is on: "Unassigned" or a pair name
StartsWithPair(assignment) == \E i \in 1..Len(PairNames) : PairNames[i] = assignment

Has(ss, key) == key \in DOMAIN ss

\* st.session_state[key] = val
Put(ss, key, val) == [k \in DOMAIN ss \cup {key} |-> IF k = key THEN val ELSE ss[k]]

\* lines 77 and 88: DataFrame({'Name', 'Email'}).to_dict(orient='records')
ToRecords(names, emails) ==
    [k \in 1..Len(names) |-> [Name |-> names[k], Email |-> emails[k]]]

\* line 100: [c['Name'] for c in st.session_state['canvassers']]
CanvasserNames(ss) ==
    IF Has(ss, "canvassers")
    THEN [k \in 1..Len(ss.canvassers) |-> ss.canvassers[k].Name]
    ELSE <<>>

SeqRange(s) == {s[k] : k \in 1..Len(s)}

\* the canvassers the user of the session ever picks into a pair
PickedNames == {"Ann", "Bob"}

\* what one multiselect over options returns: distinct options, in the order
\* they were picked
MemberLists(opts) == Orders(SeqRange(opts) \cap PickedNames)
                        \cup {<<x>> : x \in SeqRange(opts) \cap PickedNames}
                        \cup {<<>>}

\* line 99: the pairing widgets are rendered in this run
PairsRendered(use, ss) == use = "Yes" /\ Has(ss, "canvassers")

\* line 101: number_input(min_value=1, max_value=len(canvasser_names)//2) raises
\* when max_value < min_value, which ends the run of the script there
Halts(use, ss) == PairsRendered(use, ss) /\ Len(ss.canvassers) \div 2 < 1

NoRequest == [kind |-> "none", i |-> 0, n |-> 0, members |-> <<>>]

\* lines 101-108: the values of num_pairs and of the multiselects in this run.
\* A widget keeps its value from the last run only if it was rendered there
\* with the same parameters (max_value; options); otherwise it has its default.
PairWidgets(old_ss, ss, req) ==
    LET old_names == CanvasserNames(old_ss)
        names     == CanvasserNames(ss)
        before    == Len(pair_widgets) > 0
        num       == IF req.kind = "num_pairs" THEN req.n
                     ELSE IF before /\ Len(names) \div 2 = Len(old_names) \div 2
                          THEN Len(pair_widgets) ELSE 1
        keep      == before /\ names = old_names
    IN  [i \in 1..num |->
            IF req.kind = "pair_members" /\ req.i = i THEN req.members
            ELSE IF keep /\ i <= Len(pair_widgets) THEN pair_widgets[i]
            ELSE <<>>]

\* lines 99-110: st.session_state['pairs'] = pairs; element i is the member
\* list stored under the key "Pair i"
AfterPairs(use, old_ss, ss, req) ==
    IF PairsRendered(use, ss)
    THEN Put(ss, "pairs", PairWidgets(old_ss, ss, req))
    ELSE ss

\* lines 138-141
assignment_options(use, ss) ==
    IF use = "Yes" /\ Has(ss, "pairs")
    THEN [i \in 1..Len(ss.pairs) |-> PairName(i)]
    ELSE CanvasserNames(ss)

\* line 148
SelectOptions(use, ss) == <<"Unassigned">> \o assignment_options(use, ss)

\* dict.get(key, default)
Get(dict, key, default) == IF key \in DOMAIN dict THEN dict[key] ELSE default

\* st.session_state['pairs'].get(assignment, [])
PairMembers(ss, assignment) ==
    IF \E i \in 1..Len(ss.pairs) : PairName(i) = assignment
    THEN ss.pairs[CHOOSE i \in 1..Len(ss.pairs) : PairName(i) = assignment]
    ELSE <<>>

NoPick == [kind |-> "default", chunk |-> <<>>, value |-> "", old |-> <<>>]

Selected_first_unit(use, ss, chunk, pick) ==
    LET opts    == SelectOptions(use, ss)
        stored  == Get(ss.assignments, chunk, "Unassigned")
        default == IF pick.kind = "retained"
                   THEN Get(pick.old, chunk, "Unassigned") ELSE stored
    IN  IF pick.kind = "pick" /\ pick.chunk = chunk THEN pick.value
        ELSE IF default \in SeqRange(opts) /\ default # "Unassigned" THEN default
        ELSE opts[IF Len(opts) > 1 THEN 2 ELSE 1]

\* lines 145-151: the value one chunk's selectbox returns.  It is the option the
\* user picks in this run; else the option at default_index.  In the run of a
\* click on Generate Route Plan the stored map was just emptied (line 129), and
\* whether a keyed selectbox then shows index 0 or the value it showed in the
\* last run depends on the Streamlit version: pick.kind = "retained" is the
\* second outcome.
Selected(use, ss, chunk, pick) ==
    LET opts    == SelectOptions(use, ss)
        stored  == Get(ss.assignments, chunk, "Unassigned")
        default == IF pick.kind = "retained"
                   THEN Get(pick.old, chunk, "Unassigned") ELSE stored
    IN  IF pick.kind = "pick" /\ pick.chunk = chunk THEN pick.value
        ELSE IF default \in SeqRange(opts) THEN default ELSE "Unassigned"

\* lines 144-151
chunk_assignments(use, ss, pick) ==
    [chunk \in SeqRange(RouteChunks(ss.route_data)) |-> Selected(use, ss, chunk, pick)]

Attribution_within_chunk(use, ss, assignments, row) ==
    LET assignment == Get(assignments, row.RouteChunk, "Unassigned")
        within     == Cardinality({k \in 1..Len(ss.route_data) :
                          /\ ss.route_data[k].RouteChunk = row.RouteChunk
                          /\ ss.route_data[k].idx < row.idx})
    IN  IF use = "Yes" /\ StartsWithPair(assignment)
        THEN LET pair_members == PairMembers(ss, assignment)
             IN  IF Len(pair_members) > 0
                 THEN LET selected_individual ==
                              pair_members[(within % Len(pair_members)) + 1]
                      IN  <<selected_individual,
                            get_email_by_name(selected_individual, ss.canvassers)>>
                 ELSE <<"", "">>
        ELSE << IF assignment # "Unassigned" THEN assignment ELSE "",
                get_email_by_name(assignment, ss.canvassers) >>

\* lines 159-171 for one row: <<name, email>>
Attribution(use, ss, assignments, row) ==
    LET assignment == Get(assignments, row.RouteChunk, "Unassigned")
    IN  IF use = "Yes" /\ StartsWithPair(assignment)
        THEN LET pair_members == PairMembers(ss, assignment)
             IN  IF Len(pair_members) > 0
                 THEN LET selected_individual ==
                              pair_members[(row.idx % Len(pair_members)) + 1]
                      IN  <<selected_individual,
                            get_email_by_name(selected_individual, ss.canvassers)>>
                 ELSE <<"", "">>
        ELSE << IF assignment # "Unassigned" THEN assignment ELSE "",
                get_email_by_name(assignment, ss.canvassers) >>

ExportGate_all_unassigned(assignments) ==
    IF \A c \in DOMAIN assignments : assignments[c] = "Unassigned"
    THEN "warning" ELSE "download"

\* lines 189-197
ExportGate(assignments) ==
    IF \E c \in DOMAIN assignments : assignments[c] = "Unassigned"
    THEN "warning" ELSE "download"

\* line 135
StageRendered(ss) == Has(ss, "route_data") /\ Has(ss, "canvassers")

\* The rest of a run of the script once Step 1 has produced ss1: the pairing
\* step, then (ss3 given by the caller, who knows whether Generate Route Plan
\* was clicked) the assignment stage, the output columns and the export gate.
Finish(op, use, ss1, ss3, pw, file, d, streets, pick) ==
    /\ regenerated' = op
    /\ use_pairs' = use
    /\ result' = result
    /\ IF Halts(use, ss1)
       THEN \* nothing below line 101 is rendered: Streamlit drops the values
            \* of the widgets a run does not render
            /\ session_state' = ss1
            /\ pair_widgets' = <<>>
            /\ uploaded_file' = FALSE
            /\ df' = <<>>
            /\ ordered_streets' = <<>>
            /\ options' = <<>>
            /\ final_names' = <<>>
            /\ final_emails' = <<>>
            /\ export' = "halted"
       ELSE /\ pair_widgets' = pw
            /\ uploaded_file' = file
            /\ df' = d
            /\ ordered_streets' = streets
            /\ IF StageRendered(ss3)
               THEN \E ca \in {chunk_assignments(use, ss3, pick)} :
                    \E final \in {[k \in 1..Len(ss3.route_data) |->
                                      Attribution(use, ss3, ca, ss3.route_data[k])]} :
                        /\ session_state' = Put(ss3, "assignments", ca)
                        /\ options' = SelectOptions(use, ss3)
                        /\ final_names' = [k \in DOMAIN final |-> final[k][1]]
                        /\ final_emails' = [k \in DOMAIN final |-> final[k][2]]
                        /\ export' = ExportGate(ca)
               ELSE /\ session_state' = ss3
                    /\ options' = <<>>
                    /\ final_names' = <<>>
                    /\ final_emails' = <<>>
                    /\ export' = "none"

\* a run in which Generate Route Plan is not clicked
Rerun(op, use, ss1, req, file, d, streets, pick) ==
    Finish(op, use, ss1, AfterPairs(use, session_state, ss1, req),
           IF PairsRendered(use, ss1) THEN PairWidgets(session_state, ss1, req) ELSE <<>>,
           file, d, streets, pick)

Init ==
    /\ uploaded_file = FALSE
    /\ df = <<>>
    /\ ordered_streets = <<>>
    /\ result = NoResult
    /\ SessionIdle

\* lines 83-91: the button "Save Manual Canvassers"
SaveManualCanvassers ==
    \E r \in RosterInputs :
        LET ss1 == IF Len(r.names) = Len(r.emails)
                   THEN Put(session_state, "canvassers", ToRecords(r.names, r.emails))
                   ELSE session_state
        IN  Rerun(FALSE, use_pairs, ss1, NoRequest,
                  uploaded_file, df, ordered_streets, NoPick)

\* lines 71-79: a canvasser CSV is uploaded, with or without the two columns
UploadCanvasserCsv ==
    \E r \in CsvInputs :
        \E columns_ok \in BOOLEAN :
            LET ss1 == IF columns_ok
                       THEN Put(session_state, "canvassers", ToRecords(r.names, r.emails))
                       ELSE session_state
            IN  Rerun(FALSE, use_pairs, ss1, NoRequest,
                      uploaded_file, df, ordered_streets, NoPick)

\* line 97: the radio is switched
SetUsePairs ==
    \E v \in {"No", "Yes"} \ {use_pairs} :
        Rerun(FALSE, v, session_state, NoRequest,
              uploaded_file, df, ordered_streets, NoPick)

\* line 101: num_pairs is changed, within min_value..max_value
SetNumPairs ==
    /\ Len(pair_widgets) > 0
    /\ \E n \in (1..(Len(CanvasserNames(session_state)) \div 2)) \ {Len(pair_widgets)} :
          Rerun(FALSE, use_pairs, session_state,
                [kind |-> "num_pairs", i |-> 0, n |-> n, members |-> <<>>],
                uploaded_file, df, ordered_streets, NoPick)

\* line 107: the members of one pair are changed
SetPairMembers ==
    /\ Len(pair_widgets) > 0
    /\ \E i \in 1..Len(pair_widgets) :
          \E m \in MemberLists(CanvasserNames(session_state)) \ {pair_widgets[i]} :
              Rerun(FALSE, use_pairs, session_state,
                    [kind |-> "pair_members", i |-> i, n |-> 0, members |-> m],
                    uploaded_file, df, ordered_streets, NoPick)

\* lines 115-124: the register is uploaded; sort_items shows the sorted streets
UploadRegister ==
    /\ export # "halted"
    /\ ~uploaded_file
    /\ Rerun(FALSE, use_pairs, session_state, NoRequest,
             TRUE, Register, SortedStreets, NoPick)

\* line 124: the streets are dragged into another order
DragStreets ==
    /\ export # "halted"
    /\ uploaded_file
    /\ \E o \in StreetOrders(df) \ {ordered_streets} :
          Rerun(FALSE, use_pairs, session_state, NoRequest,
                uploaded_file, df, o, NoPick)

\* the first street of the order the stored route plan was generated with
RouteFirstStreet == session_state.route_data[1].Street

\* lines 126-130: the button "Generate Route Plan", then the rest of the run
GenerateRoutePlan ==
    /\ export # "halted"
    /\ uploaded_file
    /\ \E df_processed \in assign_route_order(df, ordered_streets) :
          \E retained \in BOOLEAN :
              LET ss2 == AfterPairs(use_pairs, session_state, session_state, NoRequest)
                  ss3 == Put(Put(ss2, "route_data", df_processed), "assignments", <<>>)
                  old == IF Has(session_state, "assignments")
                         THEN session_state.assignments ELSE <<>>
              IN  Finish(Has(session_state, "route_data")
                            /\ RouteFirstStreet # ordered_streets[1],
                         use_pairs, session_state, ss3,
                         IF PairsRendered(use_pairs, session_state)
                         THEN PairWidgets(session_state, session_state, NoRequest)
                         ELSE <<>>,
                         uploaded_file, df, ordered_streets,
                         IF retained
                         THEN [kind |-> "retained", chunk |-> <<>>, value |-> "",
                               old |-> old]
                         ELSE NoPick)

\* line 150: another option is picked in one chunk's selectbox
SelectAssignee ==
    /\ export \in {"warning", "download"}
    /\ \E chunk \in DOMAIN session_state.assignments :
          \E v \in SeqRange(options) \ {session_state.assignments[chunk]} :
              Rerun(FALSE, use_pairs, session_state, NoRequest,
                    uploaded_file, df, ordered_streets,
                    [kind |-> "pick", chunk |-> chunk, value |-> v, old |-> <<>>])

Next ==
    \/ SaveManualCanvassers
    \/ UploadCanvasserCsv
    \/ SetUsePairs
    \/ SetNumPairs
    \/ SetPairMembers
    \/ UploadRegister
    \/ DragStreets
    \/ GenerateRoutePlan
    \/ SelectAssignee

Spec == Init /\ [][Next]_vars

---------------------------------------------------------------------------
(* Properties of assign_route_order, checked under SpecRoute *)

Out == result.df

\* the parity class of a record, from its parsed house number
ParityClass(row) ==
    LET number == parse_house_number(row.Address)
    IN  IF number = NaN THEN "Unknown"
        ELSE IF number % 2 = 1 THEN "Odd" ELSE "Even"

ParityRank(row) ==
    CASE ParityClass(row) = "Odd" -> 1
      [] ParityClass(row) = "Even" -> 2
      [] ParityClass(row) = "Unknown" -> 3

SameChunk(r1, r2) == r1.Street = r2.Street /\ ParityClass(r1) = ParityClass(r2)

\* the position in ordered_streets of a street listed there
StreetPos(street) == CHOOSE c \in 1..Len(ordered_streets) : ordered_streets[c] = street

C2_OddEvenUnknown ==
    result.status = "ok" =>
        \A i, j \in 1..Len(Out) :
            ( /\ Out[i].Street # NaNStreet
              /\ Out[i].Street = Out[j].Street
              /\ ParityRank(Out[i]) < ParityRank(Out[j]) )
                => Out[i].RouteOrder < Out[j].RouteOrder

\* C3: records of an earlier street of ordered_streets precede those of a later
\* one; the records of one chunk are a contiguous run; within a chunk the parsed
\* house numbers are non-decreasing along Route Order.
C3_StreetChunkHouseOrder ==
    result.status = "ok" =>
        /\ \A i, j \in 1..Len(Out) :
              ( /\ Out[i].Street # NaNStreet
                /\ Out[j].Street # NaNStreet
                /\ StreetPos(Out[i].Street) < StreetPos(Out[j].Street) )
                  => Out[i].RouteOrder < Out[j].RouteOrder
        /\ \A i, j, k \in 1..Len(Out) :
              (i < j /\ j < k /\ SameChunk(Out[i], Out[k]))
                  => SameChunk(Out[i], Out[j])
        /\ \A i, j \in 1..Len(Out) :
              ( /\ Out[i].RouteOrder < Out[j].RouteOrder
                /\ SameChunk(Out[i], Out[j])
                /\ ParityClass(Out[i]) # "Unknown" )
                  => parse_house_number(Out[i].Address)
                        <= parse_house_number(Out[j].Address)

\* two streets given in the order opposite to the upload, and a chunk whose
\* two house numbers arrive in descending order
C3_Witness ==
    /\ result.status = "ok"
    /\ Len(ordered_streets) = 2
    /\ \E a, b \in 1..Len(df) :
          /\ a < b
          /\ df[a].Street # NaNStreet /\ df[b].Street # NaNStreet
          /\ StreetPos(df[a].Street) > StreetPos(df[b].Street)
    /\ \E a, b \in 1..Len(df) :
          /\ a < b
          /\ SameChunk(df[a], df[b])
          /\ ParityClass(df[a]) # "Unknown"
          /\ parse_house_number(df[a].Address) > parse_house_number(df[b].Address)

\* the Route Order assign_route_order gave to the record of an elector
OrderOf(elector) ==
    Out[CHOOSE k \in 1..Len(Out) : Out[k].Elector = elector].RouteOrder

\* C9: two input records with the same street, parity class and parsed house
\* number keep their relative input order in the output.
C9_Stable ==
    result.status = "ok" =>
        \A a, b \in 1..Len(df) :
            ( /\ a < b
              /\ df[a].Street # NaNStreet
              /\ SameChunk(df[a], df[b])
              /\ parse_house_number(df[a].Address) = parse_house_number(df[b].Address) )
                => OrderOf(df[a].Elector) < OrderOf(df[b].Elector)

---------------------------------------------------------------------------
(* Properties of the session, checked under Spec *)

Assignments == session_state.assignments

\* the assignment stage (lines 135-197) ran in the last run of the script
InStage == StageRendered(session_state) /\ export # "halted"

StageChunks == SeqRange(RouteChunks(session_state.route_data))

SomeUnassigned ==
    \E chunk \in StageChunks : Get(Assignments, chunk, "Unassigned") = "Unassigned"

Regenerates == regenerated'

\* C5 as claimed: every chunk -> assignee entry stored before such a re-run is
\* stored with the same assignee after it.
C5_EntriesKept ==
    [][Regenerates =>
          \A chunk \in DOMAIN Assignments :
              /\ chunk \in DOMAIN Assignments'
              /\ Assignments'[chunk] = Assignments[chunk]]_vars

\* C5 amended: the re-run leaves the chunk ids of the assignment map as they
\* were (they depend only on street and parity), and each chunk maps afterwards
\* to the assignee it had or to "Unassigned": the handler empties the stored
\* map (line 129).
C5_ChunkIdsKept_AssigneeKeptOrReset ==
    [][Regenerates =>
          /\ DOMAIN Assignments' = DOMAIN Assignments
          /\ \A chunk \in DOMAIN Assignments :
                Assignments'[chunk] \in {Assignments[chunk], "Unassigned"}]_vars

\* right after such a re-run the stage shows assignees, which can only be
\* entries stored before it
C5_Witness ==
    /\ regenerated
    /\ InStage
    /\ \E chunk \in StageChunks : Assignments[chunk] # "Unassigned"

\* C8: the names of the stored roster are pairwise distinct.
C8_RosterNamesDistinct ==
    Has(session_state, "canvassers") =>
        \A a, b \in 1..Len(session_state.canvassers) :
            a # b => session_state.canvassers[a].Name # session_state.canvassers[b].Name

PairsDisjoint ==
    \A i, j \in 1..Len(session_state.pairs) :
        i # j => SeqRange(session_state.pairs[i])
                    \cap SeqRange(session_state.pairs[j]) = {}

\* C6: no canvasser name is a member of two different pairs (stated for the
\* rosters whose names are distinct, so that a violation does not rest on C8).
C6_PairsDisjoint ==
    (Has(session_state, "pairs") /\ C8_RosterNamesDistinct) => PairsDisjoint

Paired == UNION {SeqRange(session_state.pairs[i]) : i \in 1..Len(session_state.pairs)}

\* C7: with pairing on, each canvasser who is in no pair is among the options
\* of the chunk selectboxes (stated for rosters of distinct names and disjoint
\* pairs, so that a violation rests on neither C8 nor C6).
C7_UnpairedSelectable ==
    (InStage /\ use_pairs = "Yes" /\ C8_RosterNamesDistinct /\ PairsDisjoint) =>
        \A name \in SeqRange(CanvasserNames(session_state)) \ Paired :
            name \in SeqRange(options)

\* the e-mail of the first roster entry with this name
RosterContact(name) ==
    LET roster == session_state.canvassers
        first  == CHOOSE k \in 1..Len(roster) :
                     /\ roster[k].Name = name
                     /\ \A j \in 1..(k - 1) : roster[j].Name # name
    IN  roster[first].Email

===========================================================================
